---- MODULE Spec2Model ----
(***************************************************************************)
(* Model of the RAM filesystem directory node (axfs_ramfs/src/dir.rs).     *)
(*                                                                         *)
(* A path is a sequence of one-character strings.  The tree is an arena of *)
(* node slots: kind, parent (the Weak back-reference) and children (the    *)
(* BTreeMap) per slot.  Every method of DirNode is a pure operator over a  *)
(* tree record S and the calling thread's frame T; one operator covers the *)
(* code executed around one acquisition of a children lock.                *)
(*   SpecSeq : one caller, every call runs to completion in one step.      *)
(*   SpecList: one caller that builds trees and queries them.              *)
(*   Spec    : several callers, one step per lock acquisition.             *)
(***************************************************************************)
EXTENDS Integers, Sequences, FiniteSets, TLC

VARIABLES
    kind,       \* slot -> "Dir", "File" or "Free"
    parent,     \* slot -> slot of the directory the Weak points at, or NoNode
    children,   \* slot -> the map from names to slots
    th,         \* caller -> frame of its call in progress, or its last result
    pre,        \* SpecSeq: the tree as it was when the last call was made
    refused,    \* SpecSeq: directories a remove has refused as not empty
    calls,      \* Spec: calls made by each caller
    scen,       \* SpecSeq: calls of the end-to-end scenario made so far
    ea,         \* the EarlyAllocator: start, end, b_pos, p_pos
    live,       \* SpecAlloc: the blocks handed out and not given back, in order
    status,     \* SpecAlloc: "new", "ready", or the panic that stopped the kernel
    lock        \* SpecLock: slot -> holders of the RwLock around its children

\* the variables of the directory tree and of the allocator
dirVars == <<kind, parent, children, th, pre, refused, calls, scen, lock>>

allocVars == <<ea, live, status>>

vars ==
    <<kind, parent, children, th, pre, refused, calls, scen, ea, live, status, lock>>

----------------------------------------------------------------------------
(* Bounds *)

MaxNodes   == 3      \* arena slots besides the root
NumThreads == 2      \* concurrent callers in Spec
MaxCalls   == 2      \* calls per caller in Spec
MaxStart   == 6      \* largest start_idx passed to read_dir
MaxCap     == 3      \* largest buffer passed to read_dir
PAGE_SIZE  == 4      \* the const parameter of EarlyAllocator, scaled down
MaxSize    == 3      \* largest size of a byte allocation
MaxPages   == 2      \* largest num_pages of a page allocation
MaxLive    == 3      \* blocks handed out and not given back

Root    == 0
NoNode  == -1
Nodes   == 0..MaxNodes
Threads == 1..NumThreads

----------------------------------------------------------------------------
(* Paths *)

NameA  == <<"a">>
NameB  == <<"b">>
Dot    == <<".">>
DotDot == <<".", ".">>
Empty  == <<>>

Components == {NameA, NameB, Dot, DotDot}

Sl(c) == <<"/">> \o c

Paths ==
    {Sl(c) : c \in Components}
        \cup {Sl(c) \o Sl(d) : c \in Components, d \in Components}
        \cup { Empty, <<"a">>, <<"/">>, <<"/", "a", "/">>, <<"/", "/", "b">>,
               Sl(NameA) \o Sl(DotDot) \o Sl(NameB),
               Sl(NameA) \o Sl(NameB) \o Sl(NameA) }

RenamePaths ==
    { Sl(NameA), Sl(NameB), Sl(Dot), Sl(DotDot), Sl(NameA) \o Sl(NameB),
      Sl(NameB) \o Sl(NameA), <<"a">> }

NodeTypes == {"File", "Dir", "SymLink"}

\* the types create_node supports
ConcTypes == {"File", "Dir"}

Synthetic(name) == name \in {Empty, Dot, DotDot}

----------------------------------------------------------------------------
(* Path parser *)

RECURSIVE trim_start_matches(_)
trim_start_matches(p) ==
    IF p # <<>> /\ Head(p) = "/" THEN trim_start_matches(Tail(p)) ELSE p

RECURSIVE trim_end_matches(_)
trim_end_matches(p) ==
    IF p # <<>> /\ p[Len(p)] = "/"
    THEN trim_end_matches(SubSeq(p, 1, Len(p) - 1))
    ELSE p

\* 1-based position of the first "/", 0 when there is none
find(p) ==
    IF \E i \in 1..Len(p) : p[i] = "/"
    THEN CHOOSE i \in 1..Len(p) : p[i] = "/" /\ \A j \in 1..(i - 1) : p[j] # "/"
    ELSE 0

\* 1-based position of the last "/", 0 when there is none
rfind(p) ==
    IF \E i \in 1..Len(p) : p[i] = "/"
    THEN CHOOSE i \in 1..Len(p) : p[i] = "/" /\ \A j \in (i + 1)..Len(p) : p[j] # "/"
    ELSE 0

split_path(path) ==
    LET trimmed_path == trim_start_matches(path)
        n == find(trimmed_path)
    IN  IF n = 0
        THEN [name |-> trimmed_path, has_rest |-> FALSE, rest |-> <<>>]
        ELSE [name |-> SubSeq(trimmed_path, 1, n - 1), has_rest |-> TRUE,
              rest |-> SubSeq(trimmed_path, n + 1, Len(trimmed_path))]

split_parent(path) ==
    LET trimmed == trim_end_matches(path)
        pos == rfind(trimmed)
    IN  IF pos > 1
        THEN [ok |-> TRUE, dir |-> SubSeq(trimmed, 1, pos - 1),
              name |-> SubSeq(trimmed, pos + 1, Len(trimmed))]
        ELSE IF pos = 1
        THEN [ok |-> TRUE, dir |-> <<"/">>,
              name |-> SubSeq(trimmed, 2, Len(trimmed))]
        ELSE [ok |-> FALSE, dir |-> <<>>, name |-> <<>>]

----------------------------------------------------------------------------
(* The tree *)

EmptyMap == <<>>

Tree == [kind |-> kind, parent |-> parent, children |-> children]

EmptyTree ==
    [kind     |-> [n \in Nodes |-> IF n = Root THEN "Dir" ELSE "Free"],
     parent   |-> [n \in Nodes |-> NoNode],
     children |-> [n \in Nodes |-> EmptyMap]]

Range(f) == {f[k] : k \in DOMAIN f}

\* BTreeMap::insert: an entry already stored under the key is replaced
map_insert(m, name, node) ==
    [k \in (DOMAIN m) \cup {name} |-> IF k = name THEN node ELSE m[k]]

\* BTreeMap::remove
map_remove(m, name) == [k \in (DOMAIN m) \ {name} |-> m[k]]

\* Nodes with a strong reference: the root, what the callers hold, and what
\* the children maps of such nodes own.
RECURSIVE Reach(_, _)
Reach(S, set) ==
    LET nxt == set \cup UNION {Range(S.children[n]) : n \in set}
    IN  IF nxt = set THEN set ELSE Reach(S, nxt)

\* Arc/Weak bookkeeping: a node without a strong reference is dropped with its
\* map, and a Weak pointing at a dropped node never upgrades again.
Drop(S, held) ==
    LET alive == Reach(S, {Root} \cup held)
    IN  [kind     |-> [n \in Nodes |-> IF n \in alive THEN S.kind[n] ELSE "Free"],
         parent   |-> [n \in Nodes |->
                          IF n \in alive /\ S.parent[n] \in alive
                          THEN S.parent[n] ELSE NoNode],
         children |-> [n \in Nodes |->
                          IF n \in alive THEN S.children[n] ELSE EmptyMap]]

\* byte value of a character of a name
Byte(c) == CASE c = "." -> 46 [] c = "/" -> 47 [] c = "a" -> 97 [] c = "b" -> 98

\* Ord for String: byte-wise lexicographic order, the order of the BTreeMap
RECURSIVE str_lt(_, _)
str_lt(x, y) ==
    IF y = <<>> THEN FALSE
    ELSE IF x = <<>> THEN TRUE
    ELSE IF Byte(Head(x)) # Byte(Head(y)) THEN Byte(Head(x)) < Byte(Head(y))
    ELSE str_lt(Tail(x), Tail(y))

\* the keys of a map in iteration order
RECURSIVE SortedKeys(_)
SortedKeys(keys) ==
    IF keys = {} THEN <<>>
    ELSE LET k == CHOOSE x \in keys : \A y \in keys \ {x} : str_lt(x, y)
         IN  <<k>> \o SortedKeys(keys \ {k})

\* The slots of the tree in depth-first order, children in iteration order.
\* Slot numbers stand for addresses and carry no meaning: once a call has
\* returned, the tree is renumbered in this order, so that trees differing
\* only in their addresses are one state.
RECURSIVE Walk(_, _)
RECURSIVE WalkAll(_, _, _)
Walk(S, n) == <<n>> \o WalkAll(S, n, SortedKeys(DOMAIN S.children[n]))
WalkAll(S, n, ks) ==
    IF ks = <<>> THEN <<>>
    ELSE Walk(S, S.children[n][Head(ks)]) \o WalkAll(S, n, Tail(ks))

Renumber(S) ==
    LET order == Walk(S, Root)
        new(n) == IF n = NoNode THEN NoNode
                  ELSE (CHOOSE i \in 1..Len(order) : order[i] = n) - 1
        old(i) == order[i + 1]
    IN  [tree |->
            [kind     |-> [i \in Nodes |-> IF i < Len(order) THEN S.kind[old(i)]
                                                              ELSE "Free"],
             parent   |-> [i \in Nodes |-> IF i < Len(order) THEN new(S.parent[old(i)])
                                                              ELSE NoNode],
             children |-> [i \in Nodes |->
                              IF i < Len(order)
                              THEN [k \in DOMAIN S.children[old(i)] |->
                                        new(S.children[old(i)][k])]
                              ELSE EmptyMap]],
         map |-> [n \in {order[i] : i \in 1..Len(order)} |-> new(n)]]

\* the slot a new Arc is placed in
FreeSlots(S) == {n \in Nodes : S.kind[n] = "Free"}

NewSlot(S) == CHOOSE n \in FreeSlots(S) : \A m \in FreeSlots(S) : n <= m

\* DirNode::parent: upgrade of the Weak back-reference
upgrade_parent(S, n) == S.parent[n]

\* DirNode::exist
exist(S, n, name) == name \in DOMAIN S.children[n]

\* DirNode::get_entries
get_entries(S, n) == DOMAIN S.children[n]

----------------------------------------------------------------------------
(* Frames *)

IdleT ==
    [pc |-> "idle", op |-> "none", path |-> <<>>, path2 |-> <<>>, ty |-> "none",
     cur |-> NoNode, rest |-> <<>>, name |-> <<>>, node |-> NoNode,
     res |-> "none", held |-> {}, seen |-> {},
     start_idx |-> 0, dirents |-> <<>>, cnt |-> 0]

CallT(op, path, path2, ty) ==
    [IdleT EXCEPT !.pc = op, !.op = op, !.path = path, !.path2 = path2,
                  !.ty = ty, !.cur = Root, !.rest = path, !.held = {Root}]

\* return to the caller: the frames and the references they hold are gone
Ret(T, res, node) ==
    [T EXCEPT !.pc = "done", !.res = res, !.node = node, !.cur = NoNode,
              !.rest = <<>>, !.name = <<>>, !.held = {}]

Enter(T, n, rest) ==
    [T EXCEPT !.cur = n, !.rest = rest, !.held = @ \cup {n}]

----------------------------------------------------------------------------
(* Methods.  Each operator maps the tree S and the caller's frame T to    *)
(* [s |-> tree, t |-> frame] and covers one lock acquisition.             *)

\* a File node asked to act as a directory (create, remove, lookup with a path)
file_node_op(T) == Ret(T, "NotADirectory", NoNode)

\* create_node without its existence check
create_node_unchecked(S, T) ==
    IF T.ty \notin {"File", "Dir"}
    THEN [s |-> S, t |-> Ret(T, "Unsupported", NoNode)]
    ELSE LET node == NewSlot(S)
         IN  [s |-> [kind     |-> [S.kind EXCEPT ![node] = T.ty],
                     parent   |-> [S.parent EXCEPT
                                     ![node] = IF T.ty = "Dir" THEN T.cur ELSE NoNode],
                     children |-> [S.children EXCEPT ![node] = EmptyMap]],
              t |-> [T EXCEPT !.pc = "insert", !.node = node,
                              !.held = @ \cup {node}]]

\* DirNode::create_node up to the construction of the node: the existence
\* check takes and releases the read lock
create_node(S, T) ==
    IF exist(S, T.cur, T.name)
    THEN [s |-> S, t |-> Ret(T, "AlreadyExists", NoNode)]
    ELSE IF T.ty \notin {"File", "Dir"}
    THEN [s |-> S, t |-> Ret(T, "Unsupported", NoNode)]
    ELSE LET node == NewSlot(S)
         IN  [s |-> [kind     |-> [S.kind EXCEPT ![node] = T.ty],
                     parent   |-> [S.parent EXCEPT
                                     ![node] = IF T.ty = "Dir" THEN T.cur ELSE NoNode],
                     children |-> [S.children EXCEPT ![node] = EmptyMap]],
              t |-> [T EXCEPT !.pc = "insert", !.node = node,
                              !.held = @ \cup {node}]]

\* create_node inserting into the root instead of the directory it runs on
create_node_insert_in_root(S, T) ==
    [s |-> [S EXCEPT !.children[Root] = map_insert(@, T.name, T.node)],
     t |-> Ret(T, "Ok", T.node)]

\* DirNode::create_node, the insertion under the write lock
create_node_insert(S, T) ==
    [s |-> [S EXCEPT !.children[T.cur] = map_insert(@, T.name, T.node)],
     t |-> Ret(T, "Ok", T.node)]

\* create going on in the current directory when a component is missing
create_skip_missing(S, T) ==
    LET sp == split_path(T.rest)
    IN  IF S.kind[T.cur] # "Dir" THEN [s |-> S, t |-> file_node_op(T)]
        ELSE IF sp.has_rest
        THEN IF sp.name \in {Empty, Dot}
             THEN [s |-> S, t |-> [T EXCEPT !.rest = sp.rest]]
             ELSE IF sp.name = DotDot
             THEN IF upgrade_parent(S, T.cur) = NoNode
                  THEN [s |-> S, t |-> Ret(T, "NotFound", NoNode)]
                  ELSE [s |-> S, t |-> Enter(T, upgrade_parent(S, T.cur), sp.rest)]
             ELSE IF ~ exist(S, T.cur, sp.name)
                  THEN [s |-> S, t |-> [T EXCEPT !.rest = sp.rest]]
                  ELSE [s |-> S, t |-> Enter(T, S.children[T.cur][sp.name], sp.rest)]
        ELSE IF Synthetic(sp.name)
        THEN [s |-> S, t |-> Ret(T, "Ok", NoNode)]
        ELSE create_node(S, [T EXCEPT !.name = sp.name])

\* DirNode::create, one level of the recursion
create(S, T) ==
    LET sp == split_path(T.rest)
    IN  IF S.kind[T.cur] # "Dir" THEN [s |-> S, t |-> file_node_op(T)]
        ELSE IF sp.has_rest
        THEN IF sp.name \in {Empty, Dot}
             THEN [s |-> S, t |-> [T EXCEPT !.rest = sp.rest]]
             ELSE IF sp.name = DotDot
             THEN IF upgrade_parent(S, T.cur) = NoNode
                  THEN [s |-> S, t |-> Ret(T, "NotFound", NoNode)]
                  ELSE [s |-> S, t |-> Enter(T, upgrade_parent(S, T.cur), sp.rest)]
             ELSE IF ~ exist(S, T.cur, sp.name)
                  THEN [s |-> S, t |-> Ret(T, "NotFound", NoNode)]
                  ELSE [s |-> S, t |-> Enter(T, S.children[T.cur][sp.name], sp.rest)]
        ELSE IF Synthetic(sp.name)
        THEN [s |-> S, t |-> Ret(T, "Ok", NoNode)]
        ELSE create_node(S, [T EXCEPT !.name = sp.name])

\* remove_node without the check that a directory is empty
remove_node_recursive(S, T) ==
    IF ~ exist(S, T.cur, T.name)
    THEN [s |-> S, t |-> Ret(T, "NotFound", NoNode)]
    ELSE [s |-> [S EXCEPT !.children[T.cur] = map_remove(@, T.name)],
          t |-> Ret(T, "Ok", S.children[T.cur][T.name])]

\* remove_node returning Ok with the entry left in the map
remove_node_keep(S, T) ==
    IF ~ exist(S, T.cur, T.name)
    THEN [s |-> S, t |-> Ret(T, "NotFound", NoNode)]
    ELSE LET node == S.children[T.cur][T.name]
         IN  IF S.kind[node] = "Dir" /\ S.children[node] # EmptyMap
             THEN [s |-> S, t |-> Ret(T, "DirectoryNotEmpty", node)]
             ELSE [s |-> S, t |-> Ret(T, "Ok", node)]

\* remove_node erasing the entry before it looks at the node
remove_node_erase_first(S, T) ==
    IF ~ exist(S, T.cur, T.name)
    THEN [s |-> S, t |-> Ret(T, "NotFound", NoNode)]
    ELSE LET node == S.children[T.cur][T.name]
             erased == [S EXCEPT !.children[T.cur] = map_remove(@, T.name)]
         IN  IF S.kind[node] = "Dir" /\ S.children[node] # EmptyMap
             THEN [s |-> erased, t |-> Ret(T, "DirectoryNotEmpty", node)]
             ELSE [s |-> erased, t |-> Ret(T, "Ok", node)]

\* DirNode::remove_node: the write lock is held from the lookup to the erase
remove_node(S, T) ==
    IF ~ exist(S, T.cur, T.name)
    THEN [s |-> S, t |-> Ret(T, "NotFound", NoNode)]
    ELSE LET node == S.children[T.cur][T.name]
         IN  IF S.kind[node] = "Dir" /\ S.children[node] # EmptyMap
             THEN [s |-> S, t |-> Ret(T, "DirectoryNotEmpty", node)]
             ELSE [s |-> [S EXCEPT !.children[T.cur] = map_remove(@, T.name)],
                   t |-> Ret(T, "Ok", node)]

\* remove handing "." and ".." as leaf names to remove_node
remove_dots_as_names(S, T) ==
    LET sp == split_path(T.rest)
    IN  IF S.kind[T.cur] # "Dir" THEN [s |-> S, t |-> file_node_op(T)]
        ELSE IF sp.has_rest
        THEN IF sp.name \in {Empty, Dot}
             THEN [s |-> S, t |-> [T EXCEPT !.rest = sp.rest]]
             ELSE IF sp.name = DotDot
             THEN IF upgrade_parent(S, T.cur) = NoNode
                  THEN [s |-> S, t |-> Ret(T, "NotFound", NoNode)]
                  ELSE [s |-> S, t |-> Enter(T, upgrade_parent(S, T.cur), sp.rest)]
             ELSE IF ~ exist(S, T.cur, sp.name)
                  THEN [s |-> S, t |-> Ret(T, "NotFound", NoNode)]
                  ELSE [s |-> S, t |-> Enter(T, S.children[T.cur][sp.name], sp.rest)]
        ELSE IF sp.name = Empty
        THEN [s |-> S, t |-> Ret(T, "InvalidInput", NoNode)]
        ELSE remove_node(S, [T EXCEPT !.name = sp.name])

\* DirNode::remove, one level of the recursion
remove(S, T) ==
    LET sp == split_path(T.rest)
    IN  IF S.kind[T.cur] # "Dir" THEN [s |-> S, t |-> file_node_op(T)]
        ELSE IF sp.has_rest
        THEN IF sp.name \in {Empty, Dot}
             THEN [s |-> S, t |-> [T EXCEPT !.rest = sp.rest]]
             ELSE IF sp.name = DotDot
             THEN IF upgrade_parent(S, T.cur) = NoNode
                  THEN [s |-> S, t |-> Ret(T, "NotFound", NoNode)]
                  ELSE [s |-> S, t |-> Enter(T, upgrade_parent(S, T.cur), sp.rest)]
             ELSE IF ~ exist(S, T.cur, sp.name)
                  THEN [s |-> S, t |-> Ret(T, "NotFound", NoNode)]
                  ELSE [s |-> S, t |-> Enter(T, S.children[T.cur][sp.name], sp.rest)]
        ELSE IF Synthetic(sp.name)
        THEN [s |-> S, t |-> Ret(T, "InvalidInput", NoNode)]
        ELSE remove_node(S, [T EXCEPT !.name = sp.name])

\* DirNode::rename up to the end of the first write-locked block: the source
\* entry is taken out of the invoking directory's own map
rename(S, T) ==
    LET old == split_parent(T.path)
        new == split_parent(T.path2)
    IN  IF ~ old.ok \/ ~ new.ok
        THEN [s |-> S, t |-> Ret(T, "InvalidInput", NoNode)]
        ELSE IF ~ exist(S, T.cur, old.name)
        THEN [s |-> S, t |-> Ret(T, "NotFound", NoNode)]
        ELSE LET old_node == S.children[T.cur][old.name]
             IN  [s |-> [S EXCEPT !.children[T.cur] = map_remove(@, old.name)],
                  t |-> [T EXCEPT !.pc = "rename_insert", !.name = new.name,
                                  !.node = old_node, !.held = @ \cup {old_node}]]

\* DirNode::rename, the second write-locked statement
rename_insert(S, T) ==
    [s |-> [S EXCEPT !.children[T.cur] = map_insert(@, T.name, T.node)],
     t |-> Ret(T, "Ok", T.node)]

\* lookup with "." taken for the name of a child
lookup_dot_as_name(S, T) ==
    LET sp == split_path(T.rest)
        node == IF sp.name = Empty THEN T.cur
                ELSE IF sp.name = DotDot THEN upgrade_parent(S, T.cur)
                ELSE IF exist(S, T.cur, sp.name) THEN S.children[T.cur][sp.name]
                ELSE NoNode
    IN  IF S.kind[T.cur] # "Dir" THEN [s |-> S, t |-> file_node_op(T)]
        ELSE IF node = NoNode THEN [s |-> S, t |-> Ret(T, "NotFound", NoNode)]
        ELSE IF sp.has_rest THEN [s |-> S, t |-> Enter(T, node, sp.rest)]
        ELSE [s |-> S, t |-> Ret(T, "Ok", node)]

\* DirNode::lookup, one level of the recursion
lookup(S, T) ==
    LET sp == split_path(T.rest)
        node == IF sp.name \in {Empty, Dot} THEN T.cur
                ELSE IF sp.name = DotDot THEN upgrade_parent(S, T.cur)
                ELSE IF exist(S, T.cur, sp.name) THEN S.children[T.cur][sp.name]
                ELSE NoNode
    IN  IF S.kind[T.cur] # "Dir" THEN [s |-> S, t |-> file_node_op(T)]
        ELSE IF node = NoNode THEN [s |-> S, t |-> Ret(T, "NotFound", NoNode)]
        ELSE IF sp.has_rest THEN [s |-> S, t |-> Enter(T, node, sp.rest)]
        ELSE [s |-> S, t |-> Ret(T, "Ok", node)]

\* a listing of the invoking directory (DirNode::get_entries)
entries(S, T) ==
    [s |-> S, t |-> [Ret(T, "Ok", NoNode) EXCEPT !.seen = get_entries(S, T.cur)]]

\* VfsDirEntry::new(name, ty)
VfsDirEntry(name, ty) == [d_name |-> name, d_type |-> ty]

\* an entry of the caller's buffer that read_dir has not written
BlankEntry == VfsDirEntry(<<>>, "Unknown")

\* the loop of read_dir at buffer index i (0-based); it is the iterator over
\* the children not yet taken, next() takes its head
RECURSIVE read_dir_loop(_, _, _, _, _)
read_dir_loop(S, T, i, it, buf) ==
    IF i = Len(buf) THEN [dirents |-> buf, cnt |-> Len(buf)]
    ELSE IF i + T.start_idx = 0
    THEN read_dir_loop(S, T, i + 1, it,
                       [buf EXCEPT ![i + 1] = VfsDirEntry(Dot, "Dir")])
    ELSE IF i + T.start_idx = 1
    THEN read_dir_loop(S, T, i + 1, it,
                       [buf EXCEPT ![i + 1] = VfsDirEntry(DotDot, "Dir")])
    ELSE IF it # <<>>
    THEN read_dir_loop(S, T, i + 1, Tail(it),
                       [buf EXCEPT ![i + 1] =
                           VfsDirEntry(Head(it), S.kind[S.children[T.cur][Head(it)]])])
    ELSE [dirents |-> buf, cnt |-> i]

\* Iterator::skip
skip(it, n) == IF n >= Len(it) THEN <<>> ELSE SubSeq(it, n + 1, Len(it))

\* read_dir skipping start_idx children, the two synthetic entries forgotten
read_dir_skip_start_idx(S, T) ==
    LET it == skip(SortedKeys(DOMAIN S.children[T.cur]), T.start_idx)
        r == read_dir_loop(S, T, 0, it, T.dirents)
    IN  [s |-> S,
         t |-> [Ret(T, "Ok", T.cur) EXCEPT !.dirents = r.dirents, !.cnt = r.cnt]]

\* DirNode::read_dir, under the read lock; the frame returns the directory
\* listed in node, the buffer in dirents and the count in cnt
read_dir(S, T) ==
    LET max2 == IF T.start_idx > 2 THEN T.start_idx ELSE 2
        it == skip(SortedKeys(DOMAIN S.children[T.cur]), max2 - 2)
        r == read_dir_loop(S, T, 0, it, T.dirents)
    IN  [s |-> S,
         t |-> [Ret(T, "Ok", T.cur) EXCEPT !.dirents = r.dirents, !.cnt = r.cnt]]

\* a read_dir call on directory d with a buffer of cap blank entries
ReadDirT(d, start_idx, cap) ==
    [IdleT EXCEPT !.pc = "read_dir", !.op = "read_dir", !.cur = d, !.held = {d},
                  !.start_idx = start_idx,
                  !.dirents = [i \in 1..cap |-> BlankEntry]]

\* one step of a call, then the references nobody holds any more are dropped
Step(S, T, others) ==
    LET r == CASE T.pc = "create"        -> create(S, T)
               [] T.pc = "insert"        -> create_node_insert(S, T)
               [] T.pc = "remove"        -> remove(S, T)
               [] T.pc = "rename"        -> rename(S, T)
               [] T.pc = "rename_insert" -> rename_insert(S, T)
               [] T.pc = "lookup"        -> lookup(S, T)
               [] T.pc = "entries"       -> entries(S, T)
               [] T.pc = "read_dir"      -> read_dir(S, T)
    IN  [s |-> Drop(r.s, r.t.held \cup others), t |-> r.t]

\* a call run from entry to return with no other caller active
RECURSIVE Run(_, _)
Run(S, T) ==
    IF T.pc = "done" THEN [s |-> S, t |-> T]
    ELSE LET r == Step(S, T, {}) IN Run(r.s, r.t)

\* the result of lookup(path) from the root in tree S
Lookup(S, path) == Run(S, CallT("lookup", path, <<>>, "none")).t

\* the result of lookup(path) called on node d of tree S
LookupFrom(S, d, path) ==
    Run(S, [CallT("lookup", path, <<>>, "none") EXCEPT !.cur = d, !.held = {d}]).t

----------------------------------------------------------------------------
(* Sequential specification: every call is one step *)

Init ==
    /\ kind = EmptyTree.kind
    /\ parent = EmptyTree.parent
    /\ children = EmptyTree.children
    /\ th = [t \in Threads |-> IdleT]
    /\ pre = EmptyTree
    /\ refused = {}
    /\ calls = [t \in Threads |-> 0]
    /\ scen = 0
    /\ ea = [start |-> 0, end |-> 0, b_pos |-> 0, p_pos |-> 0]
    /\ live = <<>>
    /\ status = "new"
    /\ lock = [n \in Nodes |-> [r |-> {}, w |-> {}]]

\* the end-to-end scenario, with a for tmp and b for f1, and its results
Scenario ==
    << CallT("create", Sl(NameA), <<>>, "Dir"),
       CallT("create", Sl(NameA), <<>>, "Dir"),
       CallT("create", Sl(NameA) \o Sl(NameB), <<>>, "File"),
       CallT("lookup", Sl(NameA) \o Sl(NameB), <<>>, "none"),
       CallT("remove", Sl(NameA), <<>>, "none"),
       CallT("remove", Sl(NameA) \o Sl(NameB), <<>>, "none"),
       CallT("remove", Sl(NameA), <<>>, "none"),
       CallT("lookup", Sl(NameA), <<>>, "none") >>

\* how far the calls made, T being the last, follow the scenario from an
\* empty root
Follow(T) ==
    IF scen > 0 /\ scen < Len(Scenario) /\ T = Scenario[scen + 1] THEN scen + 1
    ELSE IF Tree = EmptyTree /\ T = Scenario[1] THEN 1
    ELSE 0

SeqCall(T) ==
    LET r == Run(Tree, T)
    IN  /\ th[1].pc = "idle"
        /\ kind' = r.s.kind
        /\ parent' = r.s.parent
        /\ children' = r.s.children
        /\ th' = [th EXCEPT ![1] = r.t]
        /\ pre' = Tree
        /\ scen' = Follow(T)
        /\ UNCHANGED <<refused, calls>>
        /\ UNCHANGED <<allocVars, lock>>

SeqCreate ==
    \E p \in Paths, ty \in NodeTypes :
        /\ FreeSlots(Tree) # {}
        /\ SeqCall(CallT("create", p, <<>>, ty))

SeqRemove ==
    \E p \in Paths :
        SeqCall(CallT("remove", p, <<>>, "none"))

SeqRename ==
    \E p \in RenamePaths, q \in RenamePaths :
        SeqCall(CallT("rename", p, q, "none"))

SeqLookup ==
    \E p \in Paths :
        SeqCall(CallT("lookup", p, <<>>, "none"))

SeqEntries ==
    SeqCall(CallT("entries", <<>>, <<>>, "none"))

\* the caller takes the result and is ready for its next call
SeqReturn ==
    /\ th[1].pc = "done"
    /\ th' = [th EXCEPT ![1] = IdleT]
    /\ pre' = EmptyTree
    /\ LET r == Renumber(Tree)
           now == refused \cup (IF th[1].res = "DirectoryNotEmpty"
                                THEN {th[1].node} ELSE {})
       IN  /\ kind' = r.tree.kind
           /\ parent' = r.tree.parent
           /\ children' = r.tree.children
           /\ refused' = {r.map[n] : n \in {m \in now : kind[m] = "Dir"}}
    /\ UNCHANGED <<calls, scen>>
    /\ UNCHANGED <<allocVars, lock>>

NextSeq ==
    SeqCreate \/ SeqRemove \/ SeqRename \/ SeqLookup \/ SeqEntries \/ SeqReturn

SpecSeq == Init /\ [][NextSeq]_vars

----------------------------------------------------------------------------
(* Query specification: one caller fills directories with create and     *)
(* rename, looks paths up and lists directories                            *)

ListPaths ==
    { Sl(NameA), Sl(NameB), Sl(NameA) \o Sl(NameA), Sl(NameA) \o Sl(NameB),
      Sl(NameA) \o Sl(NameB) \o Sl(NameA) }

ListCreate ==
    \E p \in ListPaths, ty \in ConcTypes :
        /\ FreeSlots(Tree) # {}
        /\ SeqCall(CallT("create", p, <<>>, ty))

ListRename ==
    \E p \in RenamePaths, q \in RenamePaths :
        SeqCall(CallT("rename", p, q, "none"))

SeqReadDir ==
    \E d \in Nodes, start_idx \in 0..MaxStart, cap \in 0..MaxCap :
        /\ kind[d] = "Dir"
        /\ SeqCall(ReadDirT(d, start_idx, cap))

NextList == ListCreate \/ ListRename \/ SeqLookup \/ SeqReadDir \/ SeqReturn

SpecList == Init /\ [][NextList]_vars

----------------------------------------------------------------------------
(* Concurrent specification: one step per lock acquisition *)

ConcPaths == {Sl(NameA), Sl(NameB), Sl(NameA) \o Sl(NameB)}

\* references held by the frames of the other callers
Others(t) == UNION {th[u].held : u \in Threads \ {t}}

Call(t, T) ==
    /\ th' = [th EXCEPT ![t] = T]
    /\ calls' = [calls EXCEPT ![t] = @ + 1]
    /\ UNCHANGED <<kind, parent, children, pre, refused, scen>>
    /\ UNCHANGED <<allocVars, lock>>

\* caller t is between two calls and has calls left
Ready(t) == th[t].pc = "idle" /\ calls[t] < MaxCalls

\* callers that have not constructed their node yet
Creating == {u \in Threads : th[u].pc = "create"}

CallCreate(t) ==
    \E p \in ConcPaths, ty \in ConcTypes :
        /\ Ready(t)
        /\ Cardinality(FreeSlots(Tree)) > Cardinality(Creating)
        /\ Call(t, CallT("create", p, <<>>, ty))

CallRemove(t) ==
    \E p \in ConcPaths :
        /\ Ready(t)
        /\ Call(t, CallT("remove", p, <<>>, "none"))

CallRename(t) ==
    \E p \in ConcPaths, q \in ConcPaths :
        /\ Ready(t)
        /\ Call(t, CallT("rename", p, q, "none"))

CallLookup(t) ==
    \E p \in ConcPaths :
        /\ Ready(t)
        /\ Call(t, CallT("lookup", p, <<>>, "none"))

CallEntries(t) ==
    /\ Ready(t)
    /\ Call(t, CallT("entries", <<>>, <<>>, "none"))

Advance(t) ==
    LET r == Step(Tree, th[t], Others(t))
    IN  /\ kind' = r.s.kind
        /\ parent' = r.s.parent
        /\ children' = r.s.children
        /\ th' = [th EXCEPT ![t] = r.t]
        /\ UNCHANGED <<pre, refused, calls, scen>>
        /\ UNCHANGED <<allocVars, lock>>

CreateStep(t) == th[t].pc = "create" /\ Advance(t)

InsertStep(t) == th[t].pc = "insert" /\ Advance(t)

RemoveStep(t) == th[t].pc = "remove" /\ Advance(t)

RenameDetach(t) == th[t].pc = "rename" /\ Advance(t)

RenameInsert(t) == th[t].pc = "rename_insert" /\ Advance(t)

LookupStep(t) == th[t].pc = "lookup" /\ Advance(t)

EntriesStep(t) == th[t].pc = "entries" /\ Advance(t)

Return(t) ==
    /\ th[t].pc = "done"
    /\ th' = [th EXCEPT ![t] = IdleT]
    /\ UNCHANGED <<kind, parent, children, pre, refused, calls, scen>>
    /\ UNCHANGED <<allocVars, lock>>

Next ==
    \E t \in Threads :
        \/ CallCreate(t) \/ CallRemove(t) \/ CallRename(t)
        \/ CallLookup(t) \/ CallEntries(t)
        \/ CreateStep(t) \/ InsertStep(t) \/ RemoveStep(t)
        \/ RenameDetach(t) \/ RenameInsert(t)
        \/ LookupStep(t) \/ EntriesStep(t) \/ Return(t)

Spec == Init /\ [][Next]_vars

----------------------------------------------------------------------------
(* Lock specification: the steps of Spec with the acquisition of every     *)
(* children lock as a step of its own.  The lock around parent is only     *)
(* ever read (set_parent has no caller) and is left out.                   *)

\* RwLock::read and RwLock::write of spin: a reader gets in unless a writer
\* is in, a writer only when nobody is in; nobody queues
can_read(l) == l.w = {}

can_write(l) == l.w = {} /\ l.r = {}

\* a guard to take: the directory whose children it locks, and the mode
Req(n, mode) == [n |-> n, mode |-> mode]

\* locks_of with lookup taking the write lock
locks_of_lookup_writes(S, T) ==
    LET sp == split_path(T.rest)
        node == S.children[T.cur][sp.name]
    IN  CASE T.pc \in {"create", "remove", "lookup"} ->
               IF S.kind[T.cur] # "Dir" \/ Synthetic(sp.name) THEN <<>>
               ELSE IF T.pc = "lookup" THEN <<Req(T.cur, "w")>>
               ELSE IF sp.has_rest \/ T.pc = "create" THEN <<Req(T.cur, "r")>>
               ELSE IF exist(S, T.cur, sp.name) /\ S.kind[node] = "Dir"
               THEN <<Req(T.cur, "w"), Req(node, "r")>>
               ELSE <<Req(T.cur, "w")>>
          [] T.pc = "rename" ->
               IF split_parent(T.path).ok /\ split_parent(T.path2).ok
               THEN <<Req(T.cur, "w")>> ELSE <<>>
          [] T.pc \in {"insert", "rename_insert"} -> <<Req(T.cur, "w")>>
          [] T.pc \in {"entries", "read_dir"} -> <<Req(T.cur, "r")>>
          [] OTHER -> <<>>

\* locks_of with remove_node locking the child directory before its parent
locks_of_child_first(S, T) ==
    LET sp == split_path(T.rest)
        node == S.children[T.cur][sp.name]
    IN  CASE T.pc \in {"create", "remove", "lookup"} ->
               IF S.kind[T.cur] # "Dir" \/ Synthetic(sp.name) THEN <<>>
               ELSE IF sp.has_rest \/ T.pc \in {"create", "lookup"}
               THEN <<Req(T.cur, "r")>>
               ELSE IF exist(S, T.cur, sp.name) /\ S.kind[node] = "Dir"
               THEN <<Req(node, "r"), Req(T.cur, "w")>>
               ELSE <<Req(T.cur, "w")>>
          [] T.pc = "rename" ->
               IF split_parent(T.path).ok /\ split_parent(T.path2).ok
               THEN <<Req(T.cur, "w")>> ELSE <<>>
          [] T.pc \in {"insert", "rename_insert"} -> <<Req(T.cur, "w")>>
          [] T.pc \in {"entries", "read_dir"} -> <<Req(T.cur, "r")>>
          [] OTHER -> <<>>

\* The guards the code of one step takes, in the order it takes them; all
\* are dropped by the end of the step.  A level of a descent, lookup, exist,
\* get_entries and read_dir read the directory; the insertion of create_node
\* and both blocks of rename write it; remove_node writes the directory and,
\* holding it, reads the child when the child is a directory.
locks_of(S, T) ==
    LET sp == split_path(T.rest)
        node == S.children[T.cur][sp.name]
    IN  CASE T.pc \in {"create", "remove", "lookup"} ->
               IF S.kind[T.cur] # "Dir" \/ Synthetic(sp.name) THEN <<>>
               ELSE IF sp.has_rest \/ T.pc \in {"create", "lookup"}
               THEN <<Req(T.cur, "r")>>
               ELSE IF exist(S, T.cur, sp.name) /\ S.kind[node] = "Dir"
               THEN <<Req(T.cur, "w"), Req(node, "r")>>
               ELSE <<Req(T.cur, "w")>>
          [] T.pc = "rename" ->
               IF split_parent(T.path).ok /\ split_parent(T.path2).ok
               THEN <<Req(T.cur, "w")>> ELSE <<>>
          [] T.pc \in {"insert", "rename_insert"} -> <<Req(T.cur, "w")>>
          [] T.pc \in {"entries", "read_dir"} -> <<Req(T.cur, "r")>>
          [] OTHER -> <<>>

\* the locks caller t holds
Holds(t) == {n \in Nodes : t \in lock[n].r \cup lock[n].w}

\* caller t is inside a call
Active(t) == th[t].pc \notin {"idle", "done"}

\* the guard caller t takes next: Req(NoNode, "none") when its step needs no
\* further guard
Wants(t) ==
    LET L == locks_of(Tree, th[t])
        k == Cardinality(Holds(t))
    IN  IF Active(t) /\ k < Len(L) THEN L[k + 1] ELSE Req(NoNode, "none")

\* the lock lets the guard be taken
Available(q) ==
    IF q.mode = "r" THEN can_read(lock[q.n]) ELSE can_write(lock[q.n])

\* the tree the callers start on, built by create calls from an empty root:
\* directories /a and /b and file /a/b
TreeAfter(S, path, ty) == Run(S, CallT("create", path, <<>>, ty)).s

LockTree ==
    LET t1 == TreeAfter(EmptyTree, Sl(NameA), "Dir")
        t2 == TreeAfter(t1, Sl(NameA) \o Sl(NameB), "File")
    IN  TreeAfter(t2, Sl(NameB), "Dir")

InitLock ==
    /\ kind = LockTree.kind /\ parent = LockTree.parent
    /\ children = LockTree.children
    /\ th = [t \in Threads |-> IdleT]
    /\ pre = EmptyTree
    /\ refused = {}
    /\ calls = [t \in Threads |-> 0]
    /\ scen = 0
    /\ ea = [start |-> 0, end |-> 0, b_pos |-> 0, p_pos |-> 0]
    /\ live = <<>>
    /\ status = "new"
    /\ lock = [n \in Nodes |-> [r |-> {}, w |-> {}]]

RECURSIVE SumCalls(_)
SumCalls(n) == IF n = 0 THEN 0 ELSE calls[n] + SumCalls(n - 1)

\* caller t is between two calls and the callers together have calls left
ReadyL(t) == th[t].pc = "idle" /\ SumCalls(NumThreads) < MaxCalls

LockRenames == {Sl(NameA) \o Sl(NameB), Sl(NameB) \o Sl(NameA)}

LCreate(t) ==
    \E ty \in ConcTypes :
        /\ ReadyL(t)
        /\ Cardinality(FreeSlots(Tree)) > Cardinality(Creating)
        /\ Call(t, CallT("create", Sl(NameA) \o Sl(NameB), <<>>, ty))

LRemove(t) ==
    \E p \in {Sl(NameA), Sl(NameA) \o Sl(NameB)} :
        /\ ReadyL(t)
        /\ Call(t, CallT("remove", p, <<>>, "none"))

LRename(t) ==
    \E p \in LockRenames : \E q \in LockRenames \ {p} :
        /\ ReadyL(t)
        /\ Call(t, CallT("rename", p, q, "none"))

LLookup(t) ==
    /\ ReadyL(t)
    /\ Call(t, CallT("lookup", Sl(NameA) \o Sl(NameB), <<>>, "none"))

LEntries(t) ==
    /\ ReadyL(t)
    /\ Call(t, CallT("entries", <<>>, <<>>, "none"))

LReadDir(t) ==
    /\ ReadyL(t)
    /\ Call(t, ReadDirT(Root, 0, MaxCap))

\* RwLock::read or RwLock::write returns: the caller stops spinning
Acquire(t) ==
    LET q == Wants(t)
    IN  /\ q.n # NoNode
        /\ Available(q)
        /\ lock' = [lock EXCEPT ![q.n] =
                       IF q.mode = "r" THEN [@ EXCEPT !.r = @ \cup {t}]
                                       ELSE [@ EXCEPT !.w = @ \cup {t}]]
        /\ UNCHANGED <<kind, parent, children, th, pre, refused, calls, scen>>
        /\ UNCHANGED allocVars

\* the step of caller t has its guards and can run
CanExecute(t) == Active(t) /\ Wants(t).n = NoNode

\* the step runs with its guards held and drops them
Execute(t) ==
    LET r == Step(Tree, th[t], Others(t))
    IN  /\ CanExecute(t)
        /\ kind' = r.s.kind
        /\ parent' = r.s.parent
        /\ children' = r.s.children
        /\ th' = [th EXCEPT ![t] = r.t]
        /\ lock' = [n \in Nodes |-> [r |-> lock[n].r \ {t}, w |-> lock[n].w \ {t}]]
        /\ UNCHANGED <<pre, refused, calls, scen>>
        /\ UNCHANGED allocVars

\* a step of caller t ran: every step moves the call on
Executed(t) == CanExecute(t) /\ th[t]' # th[t]

NextLock ==
    \E t \in Threads :
        \/ LCreate(t) \/ LRemove(t) \/ LRename(t)
        \/ LLookup(t) \/ LEntries(t) \/ LReadDir(t)
        \/ Acquire(t) \/ Execute(t) \/ Return(t)

SpecLock == InitLock /\ [][NextLock]_vars

\* every caller inside a call keeps being scheduled: a caller whose lock
\* stays free gets it, and a caller whose step can run runs it.  The second
\* condition is weak fairness of Execute(t), with ENABLED <<Execute(t)>>_vars
\* written as CanExecute(t) and the step as the change it makes to th[t].
FairLock ==
    /\ SpecLock
    /\ \A t \in Threads :
           /\ WF_vars(Acquire(t))
           /\ ([]<>(~ CanExecute(t)) \/ []<><<Executed(t)>>_vars)

----------------------------------------------------------------------------
(* The early allocator (bump_allocator/src/lib.rs).  Addresses are small   *)
(* naturals, far from the width of usize: no sum or product wraps.         *)

\* x & y on usize
RECURSIVE BitAnd(_, _)
BitAnd(x, y) ==
    IF x = 0 \/ y = 0 THEN 0
    ELSE (x % 2) * (y % 2) + 2 * BitAnd(x \div 2, y \div 2)

\* x & !m on usize
AndNot(x, m) == x - BitAnd(x, m)

\* usize::is_power_of_two
is_power_of_two(n) == n > 0 /\ BitAnd(n, n - 1) = 0

\* core::alloc::Layout
Layout(size, align) == [size |-> size, align |-> align]

\* BaseAllocator::init
init(a, start, size) ==
    [start |-> start, end |-> start + size, b_pos |-> start, p_pos |-> start + size]

\* ByteAllocator::alloc
alloc(a, layout) ==
    LET align == layout.align
        size == layout.size
        aligned_cursor == AndNot(a.b_pos + align - 1, align - 1)
    IN  IF aligned_cursor + size > a.p_pos
        THEN [res |-> "NoMemory", ptr |-> 0, a |-> a]
        ELSE [res |-> "Ok", ptr |-> aligned_cursor,
              a |-> [a EXCEPT !.b_pos = aligned_cursor + size]]

\* ByteAllocator::dealloc
dealloc(a, pos, layout) ==
    LET size == layout.size
        ptr == pos
    IN  IF ptr < a.start \/ ptr >= a.end
        THEN [res |-> "panic", a |-> a]
        ELSE IF ptr >= a.p_pos
        THEN [res |-> "panic", a |-> a]
        ELSE IF ptr + size = a.b_pos
        THEN [res |-> "Ok", a |-> [a EXCEPT !.b_pos = ptr]]
        ELSE [res |-> "panic", a |-> a]

\* ByteAllocator::used_bytes and available_bytes
used_bytes(a) == a.b_pos - a.start

available_bytes(a) == a.p_pos - a.b_pos

\* PageAllocator::alloc_pages
alloc_pages(a, num_pages, align_pow2) ==
    LET align_pages == align_pow2 \div PAGE_SIZE
        total_size == num_pages * PAGE_SIZE
        alloc_start == AndNot(a.p_pos - total_size, align_pow2 - 1)
    IN  IF align_pow2 % PAGE_SIZE # 0
        THEN [res |-> "InvalidParam", pos |-> 0, a |-> a]
        ELSE IF ~ is_power_of_two(align_pages)
        THEN [res |-> "InvalidParam", pos |-> 0, a |-> a]
        ELSE IF a.p_pos < total_size
        THEN [res |-> "NoMemory", pos |-> 0, a |-> a]
        ELSE IF alloc_start < a.b_pos
        THEN [res |-> "NoMemory", pos |-> 0, a |-> a]
        ELSE [res |-> "Ok", pos |-> alloc_start,
              a |-> [a EXCEPT !.p_pos = alloc_start]]

\* PageAllocator::dealloc_pages
dealloc_pages(a, pos, num_pages) ==
    LET size == num_pages * PAGE_SIZE
        expected_pos == a.p_pos + size
    IN  IF pos # expected_pos
        THEN [res |-> "panic", a |-> a]
        ELSE [res |-> "Ok", a |-> [a EXCEPT !.p_pos = @ + size]]

----------------------------------------------------------------------------
(* Allocator specification: one owner calls the allocator; what it gives   *)
(* back are blocks it was handed, with the layout it asked for             *)

Regions == {[start |-> s, size |-> z] : s \in {0, 2}, z \in {2 * PAGE_SIZE, 3 * PAGE_SIZE}}

Aligns == {1, 2, 4}

PageAligns == {0, 2, PAGE_SIZE, 2 * PAGE_SIZE, 3 * PAGE_SIZE}

\* a block handed out: the area it came from, its address, its size in
\* bytes and the arguments of the call
Block(area, pos, size, layout, num_pages) ==
    [area |-> area, pos |-> pos, size |-> size, layout |-> layout,
     num_pages |-> num_pages]

RemoveAt(seq, i) == SubSeq(seq, 1, i - 1) \o SubSeq(seq, i + 1, Len(seq))

EaInit ==
    /\ status = "new"
    /\ \E r \in Regions : ea' = init(ea, r.start, r.size)
    /\ status' = "ready"
    /\ UNCHANGED live
    /\ UNCHANGED dirVars

EaAlloc ==
    /\ status = "ready" /\ Len(live) < MaxLive
    /\ \E size \in 0..MaxSize, align \in Aligns :
           LET r == alloc(ea, Layout(size, align))
           IN  /\ ea' = r.a
               /\ live' = IF r.res = "Ok"
                          THEN Append(live, Block("bytes", r.ptr, size,
                                                  Layout(size, align), 0))
                          ELSE live
    /\ UNCHANGED status
    /\ UNCHANGED dirVars

EaDealloc ==
    /\ status = "ready"
    /\ \E i \in 1..Len(live) :
           /\ live[i].area = "bytes"
           /\ LET r == dealloc(ea, live[i].pos, live[i].layout)
              IN  /\ ea' = r.a
                  /\ live' = IF r.res = "Ok" THEN RemoveAt(live, i) ELSE live
                  /\ status' = IF r.res = "Ok" THEN "ready" ELSE "dealloc panic"
    /\ UNCHANGED dirVars

EaAllocPages ==
    /\ status = "ready" /\ Len(live) < MaxLive
    /\ \E num_pages \in 0..MaxPages, align_pow2 \in PageAligns :
           LET r == alloc_pages(ea, num_pages, align_pow2)
           IN  /\ ea' = r.a
               /\ live' = IF r.res = "Ok"
                          THEN Append(live, Block("pages", r.pos, num_pages * PAGE_SIZE,
                                                  Layout(0, align_pow2), num_pages))
                          ELSE live
    /\ UNCHANGED status
    /\ UNCHANGED dirVars

EaDeallocPages ==
    /\ status = "ready"
    /\ \E i \in 1..Len(live) :
           /\ live[i].area = "pages"
           /\ LET r == dealloc_pages(ea, live[i].pos, live[i].num_pages)
              IN  /\ ea' = r.a
                  /\ live' = IF r.res = "Ok" THEN RemoveAt(live, i) ELSE live
                  /\ status' = IF r.res = "Ok" THEN "ready" ELSE "dealloc_pages panic"
    /\ UNCHANGED dirVars

NextAlloc == EaInit \/ EaAlloc \/ EaDealloc \/ EaAllocPages \/ EaDeallocPages

SpecAlloc == Init /\ [][NextAlloc]_vars

----------------------------------------------------------------------------
(* What a call was about, read off the tree it was made on *)

\* the last component of a path, as create and remove split it
RECURSIVE LeafOf(_)
LeafOf(p) ==
    LET sp == split_path(p) IN IF sp.has_rest THEN LeafOf(sp.rest) ELSE sp.name

\* the path without its last component
DirOf(p) == SubSeq(p, 1, Len(p) - Len(LeafOf(p)))

\* the directory of tree S that path p resolves to, NoNode when there is none
DirAt(S, p) ==
    LET r == Lookup(S, p)
    IN  IF r.res = "Ok" /\ S.kind[r.node] = "Dir" THEN r.node ELSE NoNode

\* the node stored under name in directory d of tree S, NoNode when absent
Entry(S, d, name) ==
    IF d # NoNode /\ name \in DOMAIN S.children[d] THEN S.children[d][name]
    ELSE NoNode

\* the last call of the sequential caller has returned
Done(op) == th[1].pc = "done" /\ th[1].op = op

----------------------------------------------------------------------------
(* C1 *)

\* both callers have made one call each, a create of the same single name in
\* the root, and both have returned
BothCreated(t, u) ==
    /\ t # u
    /\ \A v \in Threads : calls[v] = (IF v \in {t, u} THEN 1 ELSE 0)
    /\ th[t].pc = "done" /\ th[u].pc = "done"
    /\ th[t].op = "create" /\ th[u].op = "create"
    /\ th[t].path = th[u].path
    /\ ~ split_path(th[t].path).has_rest

\* C1: two concurrent create calls for the same name in the same directory
\* end in exactly one success and one AlreadyExists, whatever the interleaving
\* of the existence check and the insertion.
C1_OneCreateWins ==
    \A t \in Threads, u \in Threads :
        BothCreated(t, u) =>
            \/ th[t].res = "Ok" /\ th[u].res = "AlreadyExists"
            \/ th[t].res = "AlreadyExists" /\ th[u].res = "Ok"

----------------------------------------------------------------------------
(* C2 *)

\* caller t is inside a rename from one name to another, and caller u is
\* about to read the directory under its read lock
Observing(t, u) ==
    /\ t # u
    /\ th[t].op = "rename" /\ th[t].pc = "rename_insert"
    /\ split_parent(th[t].path).name # th[t].name
    /\ th[u].pc \in {"entries", "lookup"} /\ th[u].cur = th[t].cur

\* C2: what an observer reads during a rename has the moved node under
\* exactly one of the old and the new name: never under neither, never under
\* both.
C2_RenameIsOneStep ==
    \A t \in Threads, u \in Threads :
        Observing(t, u) =>
            LET old_name == split_parent(th[t].path).name
                new_name == th[t].name
                at_old == Entry(Tree, th[u].cur, old_name) = th[t].node
                at_new == Entry(Tree, th[u].cur, new_name) = th[t].node
            IN  (at_old \/ at_new) /\ ~ (at_old /\ at_new)

----------------------------------------------------------------------------
(* C3 *)

\* a rename of an existing node to another path has returned Ok; the leaf
\* names are ordinary names
RenamedOk ==
    /\ Done("rename") /\ th[1].res = "Ok"
    /\ th[1].path # th[1].path2
    /\ ~ Synthetic(split_parent(th[1].path).name)
    /\ ~ Synthetic(split_parent(th[1].path2).name)
    /\ Lookup(pre, th[1].path).res = "Ok"

\* C3: after a successful rename(old, new), lookup(new) is the node that was at
\* old, lookup(old) is NotFound, and a moved directory still has its children.
C3_RenameMoves ==
    RenamedOk =>
        LET was == Lookup(pre, th[1].path)
            now == Lookup(Tree, th[1].path2)
        IN  /\ now.res = "Ok"
            /\ now.node = was.node
            /\ Lookup(Tree, th[1].path).res = "NotFound"
            /\ children[was.node] = pre.children[was.node]

----------------------------------------------------------------------------
(* C4 *)

\* a rename whose source exists and whose destination name is taken by
\* another node
RenameOntoTaken ==
    LET src == DirAt(pre, split_parent(th[1].path).dir)
        dst == DirAt(pre, split_parent(th[1].path2).dir)
        old_name == split_parent(th[1].path).name
        new_name == split_parent(th[1].path2).name
    IN  /\ Done("rename")
        /\ split_parent(th[1].path).ok /\ split_parent(th[1].path2).ok
        /\ ~ Synthetic(old_name) /\ ~ Synthetic(new_name)
        /\ Entry(pre, src, old_name) # NoNode
        /\ Entry(pre, dst, new_name) # NoNode
        /\ Entry(pre, dst, new_name) # Entry(pre, src, old_name)

\* C4: rename onto an occupied destination name fails with AlreadyExists and
\* leaves both the destination entry and the source entry where they were.
C4_RenameRefusesTaken ==
    RenameOntoTaken =>
        LET src == DirAt(pre, split_parent(th[1].path).dir)
            dst == DirAt(pre, split_parent(th[1].path2).dir)
            old_name == split_parent(th[1].path).name
            new_name == split_parent(th[1].path2).name
        IN  /\ th[1].res = "AlreadyExists"
            /\ Entry(Tree, dst, new_name) = Entry(pre, dst, new_name)
            /\ Entry(Tree, src, old_name) = Entry(pre, src, old_name)

----------------------------------------------------------------------------
(* C5 *)

\* a rename one of whose parent directories, or whose source leaf, is missing
RenameOfMissing ==
    LET src == DirAt(pre, split_parent(th[1].path).dir)
        dst == DirAt(pre, split_parent(th[1].path2).dir)
        old_name == split_parent(th[1].path).name
        new_name == split_parent(th[1].path2).name
    IN  /\ Done("rename")
        /\ split_parent(th[1].path).ok /\ split_parent(th[1].path2).ok
        /\ ~ Synthetic(old_name) /\ ~ Synthetic(new_name)
        /\ \/ src = NoNode
           \/ dst = NoNode
           \/ Entry(pre, src, old_name) = NoNode

\* C5: rename fails with NotFound when the parent directory of old_path, the
\* parent directory of new_path or the source leaf does not exist.
C5_RenameNotFound == RenameOfMissing => th[1].res = "NotFound"

----------------------------------------------------------------------------
(* C6 *)

\* a create of a File under a name absent from an existing directory
CreateOfAbsentFile ==
    LET d == DirAt(pre, DirOf(th[1].path))
        n == LeafOf(th[1].path)
    IN  /\ Done("create") /\ th[1].ty = "File"
        /\ d # NoNode /\ ~ Synthetic(n) /\ Entry(pre, d, n) = NoNode

\* C6: for a directory D reachable from the root and a name n absent from D,
\* create(D/n, File) succeeds and lookup(D/n) then returns a File node.
C6_CreateThenLookup ==
    CreateOfAbsentFile =>
        /\ th[1].res = "Ok"
        /\ Lookup(Tree, th[1].path).res = "Ok"
        /\ kind[Lookup(Tree, th[1].path).node] = "File"

\* a File was created in a directory below the root
C6_Witness ==
    /\ CreateOfAbsentFile
    /\ DirAt(pre, DirOf(th[1].path)) # Root
    /\ th[1].res = "Ok"

----------------------------------------------------------------------------
(* C7 *)

\* a create under a name already stored in an existing directory
CreateOfPresent ==
    LET d == DirAt(pre, DirOf(th[1].path))
        n == LeafOf(th[1].path)
    IN  Done("create") /\ ~ Synthetic(n) /\ Entry(pre, d, n) # NoNode

\* C7: create under a name the directory already holds returns AlreadyExists
\* for every requested type, the tree is as before, and lookup still resolves
\* the path to the node that was stored there.
C7_CreateExisting ==
    CreateOfPresent =>
        /\ th[1].res = "AlreadyExists"
        /\ Tree = pre
        /\ Lookup(Tree, th[1].path).res = "Ok"
        /\ Lookup(Tree, th[1].path).node
               = Entry(pre, DirAt(pre, DirOf(th[1].path)), LeafOf(th[1].path))

\* a create of an unsupported type over a directory that has children
C7_Witness ==
    /\ CreateOfPresent
    /\ th[1].ty = "SymLink"
    /\ LET e == Entry(pre, DirAt(pre, DirOf(th[1].path)), LeafOf(th[1].path))
       IN  kind[e] = "Dir" /\ children[e] # EmptyMap

----------------------------------------------------------------------------
(* C8 *)

\* the node a remove call names, NoNode when the path names none
RemoveTarget ==
    IF Synthetic(LeafOf(th[1].path)) THEN NoNode
    ELSE Entry(pre, DirAt(pre, DirOf(th[1].path)), LeafOf(th[1].path))

\* C8: remove of a directory that has a child returns DirectoryNotEmpty and
\* changes nothing; remove of a directory whose children are all gone, also
\* one refused before, succeeds and erases the entry.
C8_RemoveDirectory ==
    (Done("remove") /\ RemoveTarget # NoNode /\ pre.kind[RemoveTarget] = "Dir") =>
        IF pre.children[RemoveTarget] # EmptyMap
        THEN th[1].res = "DirectoryNotEmpty" /\ Tree = pre
        ELSE /\ th[1].res = "Ok"
             /\ Entry(Tree, DirAt(pre, DirOf(th[1].path)), LeafOf(th[1].path)) = NoNode

\* the remove of a directory succeeded that had been refused while it had
\* children
C8_Witness ==
    /\ Done("remove") /\ th[1].res = "Ok"
    /\ RemoveTarget # NoNode /\ RemoveTarget \in refused

----------------------------------------------------------------------------
(* C9 *)

\* C9: a directory leaves the children map of its parent only when its own
\* children map is empty.
C9_NoDetachWithChildren ==
    th[1].pc = "done" =>
        \A d \in Nodes, n \in Nodes :
            (/\ pre.kind[n] = "Dir"
             /\ n \in Range(pre.children[d])
             /\ n \notin Range(children[d]))
                => pre.children[n] = EmptyMap

----------------------------------------------------------------------------
(* C10 *)

\* C10: no children map has the key ".", ".." or the empty name.
C10_NoSyntheticKeys ==
    \A n \in Nodes : \A k \in DOMAIN children[n] : ~ Synthetic(k)

----------------------------------------------------------------------------
(* C11 *)

\* a rename of a directory has returned Ok; the leaf names are ordinary names
\* and new_path names an existing directory other than the moved one to hold
\* the entry
RenamedDirOk ==
    LET dst == DirAt(pre, split_parent(th[1].path2).dir)
    IN  /\ Done("rename") /\ th[1].res = "Ok"
        /\ ~ Synthetic(split_parent(th[1].path).name)
        /\ ~ Synthetic(split_parent(th[1].path2).name)
        /\ pre.kind[th[1].node] = "Dir"
        /\ dst # NoNode /\ dst # th[1].node

\* C11: every directory stored in the children map of a directory D has D as
\* its parent, so that "<name>/.." looked up from D is D; a directory moved by
\* rename has the directory named by new_path as its parent.
C11_ParentIsHolder ==
    /\ \A d \in Nodes, n \in Nodes :
           (kind[d] = "Dir" /\ n \in Range(children[d]) /\ kind[n] = "Dir")
               => upgrade_parent(Tree, n) = d
    /\ RenamedDirOk =>
           upgrade_parent(Tree, th[1].node)
               = DirAt(pre, split_parent(th[1].path2).dir)

----------------------------------------------------------------------------
(* C12 *)

\* the virtual sequence of directory d: ".", "..", then the children in the
\* order of the map
VirtualSeq(S, d) ==
    LET keys == SortedKeys(DOMAIN S.children[d])
    IN  <<VfsDirEntry(Dot, "Dir"), VfsDirEntry(DotDot, "Dir")>>
            \o [i \in 1..Len(keys) |->
                    VfsDirEntry(keys[i], S.kind[S.children[d][keys[i]]])]

\* the entries a read_dir call on d writes
Listing(S, d, start_idx, cap) ==
    LET t == Run(S, ReadDirT(d, start_idx, cap)).t
    IN  SubSeq(t.dirents, 1, t.cnt)

\* pages of cap entries read with consecutive start indexes, up to the
\* first empty page
RECURSIVE Pages(_, _, _, _, _)
Pages(S, d, start_idx, cap, fuel) ==
    LET page == Listing(S, d, start_idx, cap)
    IN  IF page = <<>> \/ fuel = 0 THEN <<>>
        ELSE page \o Pages(S, d, start_idx + Len(page), cap, fuel - 1)

\* C12: read_dir with start index s and a buffer of c entries writes the
\* entries s .. min(s+c, n+2)-1 of the virtual sequence into the head of the
\* buffer and returns their number; the listing from 2 is the tail of the
\* listing from 0, and consecutive pages make up the whole sequence.
C12_ReadDirPages ==
    Done("read_dir") =>
        LET d == th[1].node
            virt == VirtualSeq(Tree, d)
            s == th[1].start_idx
            c == Len(th[1].dirents)
            hi == IF s + c < Len(virt) THEN s + c ELSE Len(virt)
        IN  /\ th[1].res = "Ok"
            /\ th[1].cnt = (IF s >= Len(virt) THEN 0 ELSE hi - s)
            /\ \A i \in 1..c :
                   th[1].dirents[i] = (IF i <= th[1].cnt THEN virt[s + i]
                                                        ELSE BlankEntry)
            /\ Listing(Tree, d, 2, Len(virt)) = Tail(Tail(Listing(Tree, d, 0, Len(virt))))
            /\ \A cap \in 1..MaxCap :
                   Pages(Tree, d, 0, cap, Len(virt)) = virt

\* a page that starts inside the children of a directory below the root and
\* ends the listing short of the buffer
C12_Witness ==
    /\ Done("read_dir") /\ th[1].node # Root
    /\ th[1].start_idx = 3
    /\ Cardinality(DOMAIN children[th[1].node]) = 2
    /\ th[1].cnt = 1 /\ Len(th[1].dirents) = 3

----------------------------------------------------------------------------
(* C13 *)

\* C13: lookup(".") and lookup of the empty path on a directory return that
\* directory, also as the last step of a longer lookup, and lookup("..") on
\* the root returns NotFound.
C13_LookupSelf ==
    /\ \A d \in Nodes :
           kind[d] = "Dir" =>
               \A p \in {Dot, Empty} :
                   /\ LookupFrom(Tree, d, p).res = "Ok"
                   /\ LookupFrom(Tree, d, p).node = d
    /\ LookupFrom(Tree, Root, DotDot).res = "NotFound"
    /\ (/\ Done("lookup")
        /\ LeafOf(th[1].path) \in {Dot, Empty}
        /\ DirAt(pre, DirOf(th[1].path)) # NoNode)
           => /\ th[1].res = "Ok"
              /\ th[1].node = DirAt(pre, DirOf(th[1].path))
    /\ (Done("lookup") /\ th[1].path = Sl(DotDot)) => th[1].res = "NotFound"

\* "." was looked up on a directory below the root that has a child
C13_Witness ==
    /\ Done("lookup") /\ th[1].path = Sl(NameA) \o Sl(Dot)
    /\ th[1].res = "Ok" /\ th[1].node # Root
    /\ children[th[1].node] # EmptyMap

----------------------------------------------------------------------------
(* C14 *)

\* the results of the calls of the scenario
Expected ==
    <<"Ok", "AlreadyExists", "Ok", "Ok", "DirectoryNotEmpty", "Ok", "Ok", "NotFound">>

\* C14: right after a successful remove(path), lookup(path) is NotFound; a
\* path that lookup does not find stays not found over every call that is not
\* a create or a rename (a remove leaves it not found, the other calls leave
\* the tree as it is); the calls of the end-to-end scenario return success,
\* AlreadyExists, success, a File, DirectoryNotEmpty, success, success,
\* NotFound.
C14_RemovedStaysGone ==
    /\ (Done("remove") /\ th[1].res = "Ok")
           => Lookup(Tree, th[1].path).res = "NotFound"
    /\ (th[1].pc = "done" /\ th[1].op \notin {"create", "rename", "remove"})
           => Tree = pre
    /\ Done("remove")
           => \A p \in Paths :
                  Lookup(pre, p).res = "NotFound" => Lookup(Tree, p).res = "NotFound"
    /\ (th[1].pc = "done" /\ scen > 0)
           => /\ th[1].res = Expected[scen]
              /\ scen = 4 => kind[th[1].node] = "File"

\* the last call of the scenario has returned
C14_Witness == th[1].pc = "done" /\ scen = Len(Scenario)

----------------------------------------------------------------------------
(* C17 *)

\* a create with a path of several components whose directory part does not
\* resolve, a component of it being missing
CreateBelowMissing ==
    /\ Done("create")
    /\ split_path(th[1].path).has_rest
    /\ Lookup(pre, DirOf(th[1].path)).res = "NotFound"

\* C17: create with a path one of whose intermediate components is missing
\* fails with NotFound and leaves every children map as it was: no
\* intermediate directory is created.
C17_NoAutoCreate ==
    CreateBelowMissing => (th[1].res = "NotFound" /\ Tree = pre)

\* a create of a directory at /a/b failed in a root that holds b but no a
C17_Witness ==
    /\ CreateBelowMissing
    /\ th[1].path = Sl(NameA) \o Sl(NameB) /\ th[1].ty = "Dir"
    /\ DOMAIN pre.children[Root] = {NameB}
    /\ th[1].res = "NotFound"

----------------------------------------------------------------------------
(* C18 *)

\* a call whose path ends in the empty name, "." or ".." below a directory
\* that exists
SyntheticLeaf(op) ==
    /\ Done(op)
    /\ Synthetic(LeafOf(th[1].path))
    /\ DirAt(pre, DirOf(th[1].path)) # NoNode

\* C18: remove with an empty, "." or ".." leaf name fails with InvalidInput
\* and removes nothing; create with such a leaf name returns success and
\* inserts nothing.
C18_SyntheticLeaf ==
    /\ SyntheticLeaf("remove") => (th[1].res = "InvalidInput" /\ Tree = pre)
    /\ SyntheticLeaf("create") => (th[1].res = "Ok" /\ Tree = pre)

\* remove of ".." below a directory of the root that has a child of its own
C18_Witness ==
    /\ SyntheticLeaf("remove") /\ LeafOf(th[1].path) = DotDot
    /\ DirAt(pre, DirOf(th[1].path)) # Root
    /\ children[DirAt(pre, DirOf(th[1].path))] # EmptyMap
    /\ th[1].res = "InvalidInput"

----------------------------------------------------------------------------
(* C19 *)

\* two blocks have a byte in common
Overlap(x, y) ==
    LET lo == IF x.pos > y.pos THEN x.pos ELSE y.pos
        hx == x.pos + x.size
        hy == y.pos + y.size
        hi == IF hx < hy THEN hx ELSE hy
    IN  lo < hi

\* C19: once initialised the allocator has start <= b_pos <= p_pos <= end, and
\* no block of bytes handed out and not given back overlaps a block of pages
\* or another block of bytes handed out and not given back.
C19_Layout ==
    status # "new" =>
        /\ ea.start <= ea.b_pos /\ ea.b_pos <= ea.p_pos /\ ea.p_pos <= ea.end
        /\ \A i \in 1..Len(live), j \in 1..Len(live) :
               (i # j /\ live[i].area = "bytes") => ~ Overlap(live[i], live[j])

----------------------------------------------------------------------------
(* C20 *)

\* C20: no dealloc of a block that alloc returned panics, and when every such
\* block has been given back b_pos is start again (used_bytes is 0).
C20_BytesFreedAtZero ==
    /\ status # "dealloc panic"
    /\ (/\ status = "ready"
        /\ \A i \in 1..Len(live) : live[i].area # "bytes")
           => (ea.b_pos = ea.start /\ used_bytes(ea) = 0)

----------------------------------------------------------------------------
(* C15 *)

\* caller t spins on a lock that caller u is in
WaitsFor(t, u) ==
    LET q == Wants(t)
    IN  /\ q.n # NoNode
        /\ ~ Available(q)
        /\ u \in lock[q.n].w \cup (IF q.mode = "w" THEN lock[q.n].r ELSE {})

\* some callers each wait for one of them
CircularWait ==
    \E C \in (SUBSET Threads) \ {{}} :
        \A t \in C : \E u \in C : WaitsFor(t, u)

\* the nodes below directory n
Below(n) == Reach(Tree, Range(children[n]))

\* a caller in one lock takes, and holds, only locks of directories below it
LockOrder ==
    \A t \in Threads :
        /\ \A n \in Holds(t) : Wants(t).n # NoNode => Wants(t).n \in Below(n)
        /\ \A n \in Holds(t), m \in Holds(t) :
               n # m => (m \in Below(n) \/ n \in Below(m))

----------------------------------------------------------------------------
(* C16 *)

\* the step of the call reads a children map: a level of a descent, lookup,
\* exist, get_entries, read_dir
IsRead(T) ==
    \/ T.pc \in {"lookup", "entries", "read_dir", "create"}
    \/ T.pc = "remove" /\ split_path(T.rest).has_rest

\* C16: while readers and no writer are in the children lock of a directory,
\* a further reader gets in; a lock held in write mode has one holder, and a
\* writing step in the lock of its directory is alone in it.
C16_ReadersShare ==
    /\ \A t \in Threads, u \in Threads, n \in Nodes :
           (/\ t # u
            /\ n \in Holds(t) /\ IsRead(th[t])
            /\ \A v \in Threads : n \in Holds(v) => IsRead(th[v])
            /\ IsRead(th[u]) /\ Wants(u).n = n)
               => Available(Wants(u))
    /\ \A n \in Nodes, t \in Threads :
           t \in lock[n].w => (lock[n].w = {t} /\ lock[n].r = {})
    /\ \A t \in Threads, u \in Threads :
           (/\ t # u
            /\ Active(t) /\ ~ IsRead(th[t])
            /\ th[t].cur \in Holds(t))
               => th[t].cur \notin Holds(u)

\* two readers are in the lock of one directory
C16_Witness ==
    \E t \in Threads, u \in Threads, n \in Nodes :
        /\ t # u
        /\ IsRead(th[t]) /\ IsRead(th[u])
        /\ n \in Holds(t) /\ n \in Holds(u)

----------------------------------------------------------------------------
(* C21 *)

\* C21: once the allocator is initialised no call moves p_pos up, so a call
\* that leaves b_pos alone, dealloc_pages among them, never makes
\* available_bytes grow: the pages area is never freed.
C21_PagesNeverFreed ==
    [][status = "ready" =>
           /\ ea.p_pos' <= ea.p_pos
           /\ (ea.b_pos' = ea.b_pos => available_bytes(ea)' <= available_bytes(ea))]_vars

----------------------------------------------------------------------------
(* C22 *)

\* the call of the caller is a create, remove or rename that returned an error
Failed ==
    /\ th[1].pc = "done"
    /\ th[1].op \in {"create", "remove", "rename"}
    /\ th[1].res # "Ok"

\* C22: a create, remove or rename call that returns an error leaves the
\* children map and the parent of every directory, and the nodes there are,
\* as they were when the call was made.
C22_ErrorLeavesTree ==
    Failed =>
        /\ children = pre.children
        /\ parent = pre.parent
        /\ kind = pre.kind

\* a remove was refused on a directory that holds a child
C22_Witness ==
    /\ Done("remove") /\ th[1].res = "DirectoryNotEmpty"
    /\ \E d \in Nodes : kind[d] = "Dir" /\ parent[d] = Root /\ children[d] # EmptyMap

====
